---- MODULE Spec2Model ----
(***************************************************************************)
(* One render cycle of src/dashboard.py (a Streamlit script): the three    *)
(* cached loads inside try/except, the sidebar project filter, and the     *)
(* aggregations of the three tabs (tasks, DORA deployments, SonarCloud     *)
(* code quality).  Data frames are modelled as a set of column names plus  *)
(* a sequence of rows; a NULL / NaN / None cell is the empty tuple <<>>    *)
(* and a present cell v is <<v>>.  Python floats that the script only      *)
(* formats with one decimal are kept as exact fractions [num, den].        *)
(* Only the columns the aggregations read are kept; the charts, which take *)
(* the frames and return nothing to the script, are left out.              *)
(***************************************************************************)
EXTENDS Integers, Sequences, FiniteSets, TLC

VARIABLES
    db,                 \* contents of the three database tables (read only)
    pc,                 \* position of the script
    attempts,           \* how often each load_* function was called
    raised,             \* which load raised inside the try block ("none")
    error,              \* st.error message shown by the except clause
    df_tasks, df_deployments, df_sonarcloud,   \* the loaded frames
    loaded,             \* the three frames exactly as the loads returned them
    selected_project,   \* sidebar selectbox value
    kpi1,               \* tab 1 KPI locals (total/completed/pending/archived)
    monthly_tasks,      \* tab 1 month buckets
    completion_rate,    \* tab 1 completion rate local
    kpi2,               \* tab 2 KPI locals and the metric strings shown
    df_filtered,        \* tab 3 project-filtered frame
    df_latest,          \* tab 3 latest-per-project frame
    kpi3,               \* tab 3 KPI locals
    debt_str,           \* tab 3 debt summary lines written, in row order
    info                \* st.info messages shown

vars == <<db, pc, attempts, raised, error, df_tasks, df_deployments,
          df_sonarcloud, loaded, selected_project, kpi1, monthly_tasks,
          completion_rate, kpi2, df_filtered, df_latest, kpi3, debt_str, info>>

----------------------------------------------------------------------------
(* Bounds of the model: the longest table of each kind that Init draws.    *)
MaxTasks == 2
MaxDeployments == 2
MaxSnapshots == 2

----------------------------------------------------------------------------
(* Cells and generic helpers.                                              *)
None == <<>>
Some(v) == <<v>>
IsNull(c) == c = <<>>
Val(c) == c[1]

SeqsUpTo(S, n) == UNION {[1..k -> S] : k \in 0..n}

\* The values of column col, in row order.
Column(rows, col) == [i \in 1..Len(rows) |-> rows[i][col]]

\* Series.sum() of a boolean column: NaN/None cells are skipped
\* (skipna=True) and True counts as 1.
RECURSIVE SumBool(_)
SumBool(cells) ==
    IF cells = <<>> THEN 0
    ELSE (IF IsNull(Head(cells)) THEN 0 ELSE IF Val(Head(cells)) THEN 1 ELSE 0)
         + SumBool(Tail(cells))

\* Series.sum() of a numeric column: NaN cells are skipped.
RECURSIVE SeriesSum(_)
SeriesSum(cells) ==
    IF cells = <<>> THEN 0
    ELSE (IF IsNull(Head(cells)) THEN 0 ELSE Val(Head(cells)))
         + SeriesSum(Tail(cells))

\* Series.count(): the number of non-null cells.
RECURSIVE SeriesCount(_)
SeriesCount(cells) ==
    IF cells = <<>> THEN 0
    ELSE (IF IsNull(Head(cells)) THEN 0 ELSE 1) + SeriesCount(Tail(cells))

\* Series.mean(): sum of the non-null cells over their number; NaN (None)
\* when there is none.
SeriesMean(cells) ==
    IF SeriesCount(cells) = 0 THEN None
    ELSE Some([num |-> SeriesSum(cells), den |-> SeriesCount(cells)])

\* f"{x:.1f}" of the fraction num/den (den > 0, num >= 0): the number of
\* tenths, nearest, an exact tie going to the even tenth.  (Python rounds
\* the binary float: a tie at a value the float cannot hold exactly, such
\* as 0.05, goes by the float's error instead; the values drawn below have
\* ties only at x.25 and x.75, which floats hold exactly.)
Fmt1(num, den) ==
    LET q == (10 * num) \div den
        r == (10 * num) % den
    IN  IF 2 * r > den THEN q + 1
        ELSE IF 2 * r < den THEN q
        ELSE IF q % 2 = 0 THEN q ELSE q + 1

\* A formatted metric string: f"{x:.1f}<unit>"; a NaN formats as "nan".
FmtMetric(x, unit) ==
    IF IsNull(x) THEN [text |-> "nan", tenths |-> 0, unit |-> unit]
    ELSE [text |-> "number", tenths |-> Fmt1(Val(x).num, Val(x).den), unit |-> unit]

----------------------------------------------------------------------------
(* Timestamps.  A database timestamp is an integer (yyyymmdd for tasks, an *)
(* abstract instant elsewhere).  In a frame a cell of a timestamp column   *)
(* is a Python None, a pandas NaT, or a Timestamp.                         *)
PyNone == [k |-> "None", v |-> 0]
NaT == [k |-> "NaT", v |-> 0]
Timestamp(v) == [k |-> "ts", v |-> v]

\* pd.read_sql on a timestamp column: a column holding at least one value
\* is inferred as datetime64 (NULL becomes NaT); an all-NULL column stays
\* an object column of None.
ReadSqlTimestamps(cells) ==
    LET anyValue == \E i \in 1..Len(cells) : ~IsNull(cells[i])
    IN  [i \in 1..Len(cells) |->
            IF ~IsNull(cells[i]) THEN Timestamp(Val(cells[i]))
            ELSE IF anyValue THEN NaT ELSE PyNone]

\* pd.to_datetime on one cell: None and NaT become NaT.
ToDatetime(c) == IF c.k = "ts" THEN c ELSE NaT

----------------------------------------------------------------------------
(* The database: the rows the three SELECT statements can return.          *)
TaskRows ==
    [done : {None, Some(TRUE), Some(FALSE)},
     archived : {Some(TRUE), Some(FALSE)},
     created_at : {None, Some(20240115), Some(20240203)}]

DeploymentRows ==
    [status : {"success", "Success", "failed"},
     lead_time_minutes : {None, Some(10), Some(25)},
     deployment_timestamp : {None, Some(1)}]

Debts == {None, Some(300), Some(1439), Some(1440), Some(1500)}

SnapshotRows ==
    [project_key : {"X", "Y"}, timestamp : {Some(1), Some(2)},
     bugs : {None, Some(1)}, overall_rating : {Some("A"), Some("F")},
     technical_debt_minutes : {Some(300)}]
    \cup
    [project_key : {"X"}, timestamp : {Some(1), Some(2)},
     bugs : {Some(1)}, overall_rating : {Some("A")},
     technical_debt_minutes : Debts]

\* ORDER BY col DESC (PostgreSQL: NULLs first).
SortedDesc(rows, col) ==
    \A i, j \in 1..Len(rows) :
        i < j => \/ IsNull(rows[i][col])
                 \/ /\ ~IsNull(rows[j][col])
                    /\ Val(rows[i][col]) >= Val(rows[j][col])

\* 10 tasks, 6 done, 2 archived.
ExampleTasks ==
    [i \in 1..10 |-> [done |-> Some(i <= 6), archived |-> Some(i \in {6, 7}),
                      created_at |-> Some(20240115)]]

\* 5 deployments, 4 successful, lead times [10, 20, null, 15, 25].
ExampleDeployments ==
    [i \in 1..5 |->
        [status |-> IF i = 3 THEN "failed" ELSE "success",
         lead_time_minutes |-> <<Some(10), Some(20), None, Some(15), Some(25)>>[i],
         deployment_timestamp |-> Some(6 - i)]]

\* Project X at three instants, rated A, B, C; newest first.
ExampleSnapshots ==
    [i \in 1..3 |->
        [project_key |-> "X", timestamp |-> Some(4 - i), bugs |-> Some(i),
         overall_rating |-> Some(<<"A", "B", "C">>[i]),
         technical_debt_minutes |-> Some(<<1500, 300, 300>>[i])]]

TaskTables == SeqsUpTo(TaskRows, MaxTasks) \cup {ExampleTasks}

DeploymentTables ==
    {t \in SeqsUpTo(DeploymentRows, MaxDeployments) :
        SortedDesc(t, "deployment_timestamp")} \cup {ExampleDeployments}

SnapshotTables ==
    {t \in SeqsUpTo(SnapshotRows, MaxSnapshots) : SortedDesc(t, "timestamp")}
    \cup {ExampleSnapshots}

\* The databases a cycle is run against: each table varied on its own, and
\* the three examples together.
Databases ==
    {[tasks |-> t, deployments |-> <<>>, sonarcloud |-> <<>>] : t \in TaskTables}
    \cup {[tasks |-> <<>>, deployments |-> d, sonarcloud |-> <<>>] :
            d \in DeploymentTables}
    \cup {[tasks |-> <<>>, deployments |-> <<>>, sonarcloud |-> s] :
            s \in SnapshotTables}
    \cup {[tasks |-> ExampleTasks, deployments |-> ExampleDeployments,
           sonarcloud |-> ExampleSnapshots]}

----------------------------------------------------------------------------
(* Frames and the three loads.                                             *)
Frame(cols, rows) == [columns |-> cols, rows |-> rows]
Unbound == Frame({}, <<>>)

\* load_tasks(): the frame pd.read_sql returns for blue_tasks.
load_tasks(table) ==
    LET ts == ReadSqlTimestamps(Column(table, "created_at"))
    IN  Frame({"done", "archived", "created_at"},
              [i \in 1..Len(table) |->
                  [done |-> table[i].done, archived |-> table[i].archived,
                   created_at |-> ts[i]]])

\* load_deployments(): the frame pd.read_sql returns for dora_deployments.
load_deployments(table) ==
    LET ts == ReadSqlTimestamps(Column(table, "deployment_timestamp"))
    IN  Frame({"status", "lead_time_minutes", "deployment_timestamp"},
              [i \in 1..Len(table) |->
                  [status |-> table[i].status,
                   lead_time_minutes |-> table[i].lead_time_minutes,
                   deployment_timestamp |-> ts[i]]])

\* load_sonarcloud(): the frame pd.read_sql returns for sonarcloud_metrics.
load_sonarcloud(table) ==
    LET ts == ReadSqlTimestamps(Column(table, "timestamp"))
    IN  Frame({"project_key", "timestamp", "bugs", "overall_rating",
               "technical_debt_minutes"},
              [i \in 1..Len(table) |->
                  [project_key |-> table[i].project_key, timestamp |-> ts[i],
                   bugs |-> table[i].bugs,
                   overall_rating |-> table[i].overall_rating,
                   technical_debt_minutes |-> table[i].technical_debt_minutes]])

Init ==
    /\ db \in Databases
    /\ pc = "load_tasks"
    /\ attempts = [tasks |-> 0, deployments |-> 0, sonarcloud |-> 0]
    /\ raised = "none"
    /\ error = None
    /\ df_tasks = Unbound
    /\ df_deployments = Unbound
    /\ df_sonarcloud = Unbound
    /\ loaded = [tasks |-> Unbound, deployments |-> Unbound, sonarcloud |-> Unbound]
    /\ selected_project = None
    /\ kpi1 = None
    /\ monthly_tasks = None
    /\ completion_rate = None
    /\ kpi2 = None
    /\ df_filtered = Unbound
    /\ df_latest = Unbound
    /\ kpi3 = None
    /\ debt_str = None
    /\ info = {}

\* Everything the script computes after the loads.
outputs ==
    <<selected_project, kpi1, monthly_tasks, completion_rate, kpi2,
      df_filtered, df_latest, kpi3, debt_str, info>>

\* try: df_tasks = load_tasks()
LoadTasks ==
    /\ pc = "load_tasks"
    /\ attempts' = [attempts EXCEPT !.tasks = @ + 1]
    /\ \/ /\ df_tasks' = load_tasks(db.tasks)
          /\ loaded' = [loaded EXCEPT !.tasks = load_tasks(db.tasks)]
          /\ pc' = "load_deployments"
          /\ UNCHANGED raised
       \/ /\ raised' = "tasks"
          /\ pc' = "except"
          /\ UNCHANGED <<df_tasks, loaded>>
    /\ UNCHANGED <<db, error, df_deployments, df_sonarcloud, outputs>>

\* df_deployments = load_deployments()
LoadDeployments ==
    /\ pc = "load_deployments"
    /\ attempts' = [attempts EXCEPT !.deployments = @ + 1]
    /\ \/ /\ df_deployments' = load_deployments(db.deployments)
          /\ loaded' = [loaded EXCEPT !.deployments = load_deployments(db.deployments)]
          /\ pc' = "load_sonarcloud"
          /\ UNCHANGED raised
       \/ /\ raised' = "deployments"
          /\ pc' = "except"
          /\ UNCHANGED <<df_deployments, loaded>>
    /\ UNCHANGED <<db, error, df_tasks, df_sonarcloud, outputs>>

\* df_sonarcloud = load_sonarcloud()
LoadSonarcloud ==
    /\ pc = "load_sonarcloud"
    /\ attempts' = [attempts EXCEPT !.sonarcloud = @ + 1]
    /\ \/ /\ df_sonarcloud' = load_sonarcloud(db.sonarcloud)
          /\ loaded' = [loaded EXCEPT !.sonarcloud = load_sonarcloud(db.sonarcloud)]
          /\ pc' = "sidebar"
          /\ UNCHANGED raised
       \/ /\ raised' = "sonarcloud"
          /\ pc' = "except"
          /\ UNCHANGED <<df_sonarcloud, loaded>>
    /\ UNCHANGED <<db, error, df_tasks, df_deployments, outputs>>

\* (Variant: the except clause shows the error but does not st.stop().)
ExceptWithoutStop ==
    /\ pc = "except"
    /\ error' = Some("Erro ao conectar ao banco de dados")
    /\ pc' = "sidebar"
    /\ UNCHANGED <<db, attempts, raised, df_tasks, df_deployments,
                   df_sonarcloud, loaded, outputs>>

\* except Exception as e: st.error(...); st.stop()
Except ==
    /\ pc = "except"
    /\ error' = Some("Erro ao conectar ao banco de dados")
    /\ pc' = "stopped"
    /\ UNCHANGED <<db, attempts, raised, df_tasks, df_deployments,
                   df_sonarcloud, loaded, outputs>>

\* projects = df_sonarcloud['project_key'].unique().tolist(): the distinct
\* keys; the selectbox offers "Todos" and each of them.
projects == {df_sonarcloud.rows[i].project_key : i \in 1..Len(df_sonarcloud.rows)}

Sidebar ==
    /\ pc = "sidebar"
    /\ \E choice \in {"Todos"} \cup projects : selected_project' = Some(choice)
    /\ pc' = "tab1_kpis"
    /\ UNCHANGED <<db, attempts, raised, error, df_tasks, df_deployments,
                   df_sonarcloud, loaded, kpi1, monthly_tasks, completion_rate,
                   kpi2, df_filtered, df_latest, kpi3, debt_str, info>>

----------------------------------------------------------------------------
(* Tab 1: tasks.                                                           *)

\* completed_tasks = df_tasks['done'].sum()
CompletedCount(rows) == SumBool(Column(rows, "done"))

\* pending_tasks = len(df_tasks[df_tasks['done'] == False]); a null cell
\* compares unequal to False.
\* (Variant: the mask is taken on 'archived' instead of 'done'.)
IsPendingOnArchived(row) == ~IsNull(row.archived) /\ Val(row.archived) = FALSE
IsPending(row) == ~IsNull(row.done) /\ Val(row.done) = FALSE
PendingCount(rows) == Len(SelectSeq(rows, IsPending))

\* archived_tasks = df_tasks['archived'].sum()
ArchivedCount(rows) == SumBool(Column(rows, "archived"))

Tab1KPIs ==
    /\ pc = "tab1_kpis"
    /\ kpi1' = Some([total_tasks |-> Len(df_tasks.rows),
                     completed_tasks |-> CompletedCount(df_tasks.rows),
                     pending_tasks |-> PendingCount(df_tasks.rows),
                     archived_tasks |-> ArchivedCount(df_tasks.rows)])
    /\ pc' = "tab1_monthly"
    /\ UNCHANGED <<db, attempts, raised, error, df_tasks, df_deployments,
                   df_sonarcloud, loaded, selected_project, monthly_tasks,
                   completion_rate, kpi2, df_filtered, df_latest, kpi3,
                   debt_str, info>>

\* The cells of the 'month' column.
Period(ym) == [str |-> "period", ym |-> ym]
NaTString == [str |-> "NaT", ym |-> 0]
Missing == [str |-> "", ym |-> 0]

\* .dt.to_period('M').astype(str) on one cell: the year and month of a
\* timestamp (yyyymmdd -> yyyymm).  A NaT becomes nat: the string 'NaT'
\* under pandas before 3.0, a missing value from 3.0 on.
MonthOf(c, nat) == IF c.k = "ts" THEN Period(c.v \div 100) ELSE nat

\* groupby(col).size(): one bucket per distinct non-missing key, holding the
\* number of rows with that key (groupby drops missing keys).
GroupBySize(rows, col) ==
    {[month |-> key,
      Quantidade |-> Cardinality({i \in 1..Len(rows) : rows[i][col] = key})] :
        key \in {rows[i][col] : i \in 1..Len(rows)} \ {Missing}}

Tab1Monthly ==
    /\ pc = "tab1_monthly"
    /\ \E nat \in {NaTString, Missing} :
        LET rows == [i \in 1..Len(df_tasks.rows) |->
                        [done |-> df_tasks.rows[i].done,
                         archived |-> df_tasks.rows[i].archived,
                         created_at |-> ToDatetime(df_tasks.rows[i].created_at),
                         month |-> MonthOf(ToDatetime(df_tasks.rows[i].created_at), nat)]]
        IN  /\ df_tasks' = Frame(df_tasks.columns \cup {"month"}, rows)
            /\ monthly_tasks' = Some(GroupBySize(rows, "month"))
            /\ info' = IF GroupBySize(rows, "month") = {}
                       THEN info \cup {"Sem dados mensais disponiveis"} ELSE info
    /\ pc' = "tab1_rate"
    /\ UNCHANGED <<db, attempts, raised, error, df_deployments, df_sonarcloud,
                   loaded, selected_project, kpi1, completion_rate, kpi2,
                   df_filtered, df_latest, kpi3, debt_str>>

\* (Variant: the rate computed without the total_tasks > 0 guard.)
CompletionRateUnguarded(completed, total) ==
    Some([num |-> completed * 100, den |-> total])

\* if total_tasks > 0: completion_rate = (completed_tasks / total_tasks) * 100
\* (otherwise the name stays unbound and nothing is shown).
CompletionRate(completed, total) ==
    IF total > 0 THEN Some([num |-> completed * 100, den |-> total]) ELSE None

Tab1Rate ==
    /\ pc = "tab1_rate"
    /\ completion_rate' = CompletionRate(Val(kpi1).completed_tasks, Val(kpi1).total_tasks)
    /\ pc' = "tab2_kpis"
    /\ UNCHANGED <<db, attempts, raised, error, df_tasks, df_deployments,
                   df_sonarcloud, loaded, selected_project, kpi1, monthly_tasks,
                   kpi2, df_filtered, df_latest, kpi3, debt_str, info>>

----------------------------------------------------------------------------
(* Tab 2: deployments.                                                     *)

\* (Variant: the status compared without regard to case.)
IsSuccessAnyCase(row) == row.status \in {"success", "Success"}

\* len(df_deployments[df_deployments['status'] == 'success'])
IsSuccess(row) == row.status = "success"
SuccessfulCount(rows) == Len(SelectSeq(rows, IsSuccess))

\* (successful / total * 100) if total > 0 else 0
SuccessRate(successful, total) ==
    IF total > 0 THEN Some([num |-> successful * 100, den |-> total])
    ELSE Some([num |-> 0, den |-> 1])

Tab2KPIs ==
    /\ pc = "tab2_kpis"
    /\ Len(df_deployments.rows) > 0
    /\ LET total == Len(df_deployments.rows)
           successful == SuccessfulCount(df_deployments.rows)
           avg == SeriesMean(Column(df_deployments.rows, "lead_time_minutes"))
           rate == SuccessRate(successful, total)
       IN  kpi2' = Some([total_deployments |-> total,
                         successful_deployments |-> successful,
                         avg_lead_time |-> avg,
                         success_rate |-> rate,
                         lead_time_metric |-> FmtMetric(avg, " min"),
                         success_rate_metric |-> FmtMetric(rate, "%")])
    /\ pc' = "tab2_charts"
    /\ UNCHANGED <<db, attempts, raised, error, df_tasks, df_deployments,
                   df_sonarcloud, loaded, selected_project, kpi1, monthly_tasks,
                   completion_rate, df_filtered, df_latest, kpi3, debt_str, info>>

\* else: st.info("Nenhum deployment registrado")
Tab2Empty ==
    /\ pc = "tab2_kpis"
    /\ Len(df_deployments.rows) = 0
    /\ info' = info \cup {"Nenhum deployment registrado"}
    /\ pc' = "tab3_filter"
    /\ UNCHANGED <<db, attempts, raised, error, df_tasks, df_deployments,
                   df_sonarcloud, loaded, selected_project, kpi1, monthly_tasks,
                   completion_rate, kpi2, df_filtered, df_latest, kpi3, debt_str>>

\* df_deployments['deployment_timestamp'] = pd.to_datetime(...)
Tab2Charts ==
    /\ pc = "tab2_charts"
    /\ df_deployments' =
          Frame(df_deployments.columns,
                [i \in 1..Len(df_deployments.rows) |->
                    [df_deployments.rows[i] EXCEPT
                        !.deployment_timestamp = ToDatetime(@)]])
    /\ pc' = "tab3_filter"
    /\ UNCHANGED <<db, attempts, raised, error, df_tasks, df_sonarcloud, loaded,
                   selected_project, kpi1, monthly_tasks, completion_rate, kpi2,
                   df_filtered, df_latest, kpi3, debt_str, info>>

----------------------------------------------------------------------------
(* Tab 3: code quality.                                                    *)

\* if selected_project != "Todos": df_sonarcloud[project_key == selected]
\* else: df_sonarcloud itself.
FilterProject(frame, selected) ==
    IF selected # "Todos"
    THEN Frame(frame.columns,
               SelectSeq(frame.rows, LAMBDA row : row.project_key = selected))
    ELSE frame

Tab3Filter ==
    /\ pc = "tab3_filter"
    /\ df_filtered' = FilterProject(df_sonarcloud, Val(selected_project))
    /\ pc' = "tab3_latest"
    /\ UNCHANGED <<db, attempts, raised, error, df_tasks, df_deployments,
                   df_sonarcloud, loaded, selected_project, kpi1, monthly_tasks,
                   completion_rate, kpi2, df_latest, kpi3, debt_str, info>>

\* else: st.info("Nenhuma metrica de qualidade disponivel")
Tab3Empty ==
    /\ pc = "tab3_latest"
    /\ Len(df_filtered.rows) = 0
    /\ info' = info \cup {"Nenhuma metrica de qualidade disponivel"}
    /\ pc' = "footer"
    /\ UNCHANGED <<db, attempts, raised, error, df_tasks, df_deployments,
                   df_sonarcloud, loaded, selected_project, kpi1, monthly_tasks,
                   completion_rate, kpi2, df_filtered, df_latest, kpi3, debt_str>>

\* sort_values('timestamp'): the rows in ascending timestamp order, NaT
\* last.  The default sort (quicksort) is not stable, so rows with equal
\* timestamps may come out in any order: the set of possible results.
TimestampLeq(a, b) == b.k # "ts" \/ (a.k = "ts" /\ a.v <= b.v)
SortValues(rows) ==
    LET n == Len(rows)
        perms == {f \in [1..n -> 1..n] : \A i, j \in 1..n : i # j => f[i] # f[j]}
    IN  {[i \in 1..n |-> rows[f[i]]] : f \in
            {g \in perms : \A i, j \in 1..n :
                i < j => TimestampLeq(rows[g[i]].timestamp, rows[g[j]].timestamp)}}

\* GroupBy.last() on one column of one group: the last non-null cell of
\* the column (None when every cell is null).
RECURSIVE LastNonNull(_)
LastNonNull(cells) ==
    IF cells = <<>> THEN None
    ELSE IF ~IsNull(cells[Len(cells)]) THEN cells[Len(cells)]
    ELSE LastNonNull(SubSeq(cells, 1, Len(cells) - 1))

RECURSIVE LastTimestamp(_)
LastTimestamp(cells) ==
    IF cells = <<>> THEN NaT
    ELSE IF cells[Len(cells)].k = "ts" THEN cells[Len(cells)]
    ELSE LastTimestamp(SubSeq(cells, 1, Len(cells) - 1))

\* The project keys in the order groupby sorts them.
KeyOrder == <<"X", "Y">>

\* groupby('project_key').last().reset_index(): one row per key present,
\* in key order, each column reduced by last().
GroupByLast(rows) ==
    LET group(key) == SelectSeq(rows, LAMBDA row : row.project_key = key)
        present == SelectSeq(KeyOrder, LAMBDA key : group(key) # <<>>)
    IN  [i \in 1..Len(present) |->
            [project_key |-> present[i],
             timestamp |-> LastTimestamp(Column(group(present[i]), "timestamp")),
             bugs |-> LastNonNull(Column(group(present[i]), "bugs")),
             overall_rating |-> LastNonNull(Column(group(present[i]), "overall_rating")),
             technical_debt_minutes |->
                 LastNonNull(Column(group(present[i]), "technical_debt_minutes"))]]

Tab3Latest ==
    /\ pc = "tab3_latest"
    /\ Len(df_filtered.rows) > 0
    /\ \E sorted \in SortValues(df_filtered.rows) :
          /\ df_latest' = Frame(df_filtered.columns, GroupByLast(sorted))
          /\ kpi3' = Some([total_bugs |-> SeriesSum(Column(GroupByLast(sorted), "bugs"))])
    /\ pc' = "tab3_rating"
    /\ UNCHANGED <<db, attempts, raised, error, df_tasks, df_deployments,
                   df_sonarcloud, loaded, selected_project, kpi1, monthly_tasks,
                   completion_rate, kpi2, df_filtered, debt_str, info>>

\* rating_order = {'A': 5, 'B': 4, 'C': 3, 'D': 2, 'E': 1};
\* Series.map(rating_order): a letter that is no key maps to NaN.
rating_order(c) ==
    IF IsNull(c) THEN None
    ELSE CASE Val(c) = "A" -> Some(5)
           [] Val(c) = "B" -> Some(4)
           [] Val(c) = "C" -> Some(3)
           [] Val(c) = "D" -> Some(2)
           [] Val(c) = "E" -> Some(1)
           [] OTHER -> None

\* df_latest['rating_value'] = df_latest['overall_rating'].map(rating_order)
Tab3Rating ==
    /\ pc = "tab3_rating"
    /\ df_latest' =
          Frame(df_latest.columns \cup {"rating_value"},
                [i \in 1..Len(df_latest.rows) |->
                    [project_key |-> df_latest.rows[i].project_key,
                     timestamp |-> df_latest.rows[i].timestamp,
                     bugs |-> df_latest.rows[i].bugs,
                     overall_rating |-> df_latest.rows[i].overall_rating,
                     technical_debt_minutes |-> df_latest.rows[i].technical_debt_minutes,
                     rating_value |-> rating_order(df_latest.rows[i].overall_rating)]])
    /\ pc' = "tab3_debt"
    /\ UNCHANGED <<db, attempts, raised, error, df_tasks, df_deployments,
                   df_sonarcloud, loaded, selected_project, kpi1, monthly_tasks,
                   completion_rate, kpi2, df_filtered, kpi3, debt_str, info>>

\* (Variant: hours > 24 instead of hours >= 24.)
DebtStrStrict(m) ==
    IF IsNull(m) THEN [text |-> "nan", tenths |-> 0, unit |-> " horas"]
    ELSE IF Val(m) > 24 * 60
         THEN [text |-> "number", tenths |-> Fmt1(Val(m), 60 * 24), unit |-> " dias"]
         ELSE [text |-> "number", tenths |-> Fmt1(Val(m), 60), unit |-> " horas"]

\* hours = technical_debt_minutes / 60; if hours >= 24: f"{hours/24:.1f} dias"
\* else: f"{hours:.1f} horas".  A NaN compares false and formats as "nan".
DebtStr(m) ==
    IF IsNull(m) THEN [text |-> "nan", tenths |-> 0, unit |-> " horas"]
    ELSE IF Val(m) >= 24 * 60
         THEN [text |-> "number", tenths |-> Fmt1(Val(m), 60 * 24), unit |-> " dias"]
         ELSE [text |-> "number", tenths |-> Fmt1(Val(m), 60), unit |-> " horas"]

\* df_latest['debt_hours'] = ...; for _, row in df_latest.iterrows(): st.write
Tab3Debt ==
    /\ pc = "tab3_debt"
    /\ debt_str' = Some([i \in 1..Len(df_latest.rows) |->
                          [project_key |-> df_latest.rows[i].project_key,
                           debt |-> DebtStr(df_latest.rows[i].technical_debt_minutes)]])
    /\ df_latest' = Frame(df_latest.columns \cup {"debt_hours"}, df_latest.rows)
    /\ pc' = "tab3_evolution"
    /\ UNCHANGED <<db, attempts, raised, error, df_tasks, df_deployments,
                   df_sonarcloud, loaded, selected_project, kpi1, monthly_tasks,
                   completion_rate, kpi2, df_filtered, kpi3, info>>

\* df_filtered['timestamp'] = pd.to_datetime(df_filtered['timestamp']):
\* with "Todos" df_filtered is df_sonarcloud itself, which is assigned too.
Tab3Evolution ==
    /\ pc = "tab3_evolution"
    /\ LET converted ==
              Frame(df_filtered.columns,
                    [i \in 1..Len(df_filtered.rows) |->
                        [df_filtered.rows[i] EXCEPT !.timestamp = ToDatetime(@)]])
       IN  /\ df_filtered' = converted
           /\ df_sonarcloud' = IF Val(selected_project) = "Todos"
                               THEN converted ELSE df_sonarcloud
    /\ pc' = "footer"
    /\ UNCHANGED <<db, attempts, raised, error, df_tasks, df_deployments, loaded,
                   selected_project, kpi1, monthly_tasks, completion_rate, kpi2,
                   df_latest, kpi3, debt_str, info>>

\* The footer: the script ends.
Footer ==
    /\ pc = "footer"
    /\ pc' = "done"
    /\ UNCHANGED <<db, attempts, raised, error, df_tasks, df_deployments,
                   df_sonarcloud, loaded, outputs>>

Next ==
    \/ LoadTasks \/ LoadDeployments \/ LoadSonarcloud \/ Except \/ Sidebar
    \/ Tab1KPIs \/ Tab1Monthly \/ Tab1Rate
    \/ Tab2KPIs \/ Tab2Empty \/ Tab2Charts
    \/ Tab3Filter \/ Tab3Empty \/ Tab3Latest \/ Tab3Rating \/ Tab3Debt
    \/ Tab3Evolution \/ Footer

Spec == Init /\ [][Next]_vars

----------------------------------------------------------------------------
(* Properties.                                                             *)

Indices(rows) == 1..Len(rows)

\* The script is past tab 1 / past the tab 2 branch.
AfterTab1 ==
    pc \in {"tab2_kpis", "tab2_charts", "tab3_filter", "tab3_latest",
            "tab3_rating", "tab3_debt", "tab3_evolution", "footer", "done"}
AfterTab2 ==
    pc \in {"tab3_filter", "tab3_latest", "tab3_rating", "tab3_debt",
            "tab3_evolution", "footer", "done"}

RECURSIVE SumQuantidade(_)
SumQuantidade(buckets) ==
    IF buckets = {} THEN 0
    ELSE LET b == CHOOSE x \in buckets : TRUE
         IN  b.Quantidade + SumQuantidade(buckets \ {b})

\* C1: for every project key of the filtered snapshots, the latest record
\* is one input row of that project with the maximum timestamp of the
\* project, every field taken from that row (also when a field is null).
C1_LatestIsOneMaxRow ==
    pc = "tab3_rating" =>
        \A key \in {df_filtered.rows[i].project_key : i \in Indices(df_filtered.rows)} :
            \E i \in Indices(df_filtered.rows) :
                /\ df_filtered.rows[i].project_key = key
                /\ \A j \in Indices(df_filtered.rows) :
                      df_filtered.rows[j].project_key = key =>
                          df_filtered.rows[j].timestamp.v <= df_filtered.rows[i].timestamp.v
                /\ \E l \in Indices(df_latest.rows) : df_latest.rows[l] = df_filtered.rows[i]
                /\ Cardinality({l \in Indices(df_latest.rows) :
                                   df_latest.rows[l].project_key = key}) = 1

\* C2: the month buckets' counts sum to the number of tasks whose
\* created_at is not null; a null created_at is in no bucket.
C2_MonthCountsSumToNonNull ==
    ~IsNull(monthly_tasks) =>
        SumQuantidade(Val(monthly_tasks)) =
            Cardinality({i \in Indices(db.tasks) : ~IsNull(db.tasks[i].created_at)})

\* C3: when done is a boolean on every task, completed + pending = total;
\* the example of 10 tasks, 6 done, 2 archived gives 10, 6, 4, 2.
C3_CompletedPlusPending ==
    ~IsNull(kpi1) =>
        /\ (\A i \in Indices(db.tasks) : ~IsNull(db.tasks[i].done)) =>
              Val(kpi1).completed_tasks + Val(kpi1).pending_tasks = Val(kpi1).total_tasks
        /\ db.tasks = ExampleTasks =>
              Val(kpi1) = [total_tasks |-> 10, completed_tasks |-> 6,
                           pending_tasks |-> 4, archived_tasks |-> 2]
C3_Witness ==
    /\ ~IsNull(kpi1)
    /\ db.tasks = ExampleTasks
    /\ Val(kpi1).pending_tasks = 4

C5_FailFast ==
    /\ (\E i \in Indices(df_tasks.rows) : IsNull(df_tasks.rows[i].done)) => IsNull(kpi1)
    /\ (\E i \in Indices(df_latest.rows) :
            df_latest.rows[i].overall_rating \notin
                {Some("A"), Some("B"), Some("C"), Some("D"), Some("E")})
          => "rating_value" \notin df_latest.columns

\* C6: the average lead time is the mean over the non-null lead times, and
\* when every lead time of a non-empty set is null the metric shows a
\* 'no data' marker instead of a formatted value.
C6_LeadTimeNoData ==
    ~IsNull(kpi2) =>
        LET present == {i \in Indices(db.deployments) :
                           ~IsNull(db.deployments[i].lead_time_minutes)}
        IN  /\ present # {} =>
                  /\ Val(Val(kpi2).avg_lead_time).den = Cardinality(present)
                  /\ Val(Val(kpi2).avg_lead_time).num =
                        SeriesSum(Column(db.deployments, "lead_time_minutes"))
            /\ present = {} => Val(kpi2).lead_time_metric.text = "no data"

\* C7: the successful count is the number of records whose status is
\* exactly "success", the rate is successful / total x 100 within [0, 100],
\* and an empty deployment set shows 'no deployments' with no KPI computed.
C7_SuccessRate ==
    /\ ~IsNull(kpi2) =>
          /\ Val(kpi2).successful_deployments =
                Cardinality({i \in Indices(db.deployments) :
                                db.deployments[i].status = "success"})
          /\ Val(kpi2).total_deployments = Len(db.deployments)
          /\ Val(Val(kpi2).success_rate).den = Val(kpi2).total_deployments
          /\ Val(Val(kpi2).success_rate).den > 0
          /\ Val(Val(kpi2).success_rate).num = 100 * Val(kpi2).successful_deployments
          /\ 0 <= Val(Val(kpi2).success_rate).num
          /\ Val(Val(kpi2).success_rate).num <= 100 * Val(Val(kpi2).success_rate).den
          /\ db.deployments = ExampleDeployments =>
                Val(kpi2).success_rate_metric =
                    [text |-> "number", tenths |-> 800, unit |-> "%"]
    /\ (AfterTab2 /\ db.deployments = <<>>) =>
          /\ IsNull(kpi2)
          /\ "Nenhum deployment registrado" \in info
C7_Witness ==
    /\ ~IsNull(kpi2)
    /\ \E i \in Indices(db.deployments) : db.deployments[i].status = "Success"
    /\ \E i \in Indices(db.deployments) : db.deployments[i].status = "success"
    /\ Val(kpi2).successful_deployments = 1

\* C8: once a load has raised, the cycle only shows the error and stops:
\* nothing after the loads is computed, the failed load was called once,
\* and the loads after it were not called.
C8_HaltOnLoadError ==
    /\ \A l \in {"tasks", "deployments", "sonarcloud"} : attempts[l] <= 1
    /\ raised # "none" =>
          /\ pc \in {"except", "stopped"}
          /\ pc = "stopped" => ~IsNull(error)
          /\ outputs = <<None, None, None, None, None, Unbound, Unbound, None, None, {}>>
          /\ attempts[raised] = 1
          /\ raised = "tasks" => attempts.deployments = 0 /\ attempts.sonarcloud = 0
          /\ raised = "deployments" => attempts.sonarcloud = 0
    /\ pc = "stopped" => raised # "none"
C8_Witness ==
    /\ pc = "stopped"
    /\ raised = "deployments"
    /\ attempts = [tasks |-> 1, deployments |-> 1, sonarcloud |-> 0]
    /\ Len(db.tasks) > 0

\* C9: when the cycle is over, the three loaded frames have the columns
\* and the cells they had when they were loaded.
C9_InputsUnchanged ==
    pc = "done" =>
        /\ df_tasks = loaded.tasks
        /\ df_deployments = loaded.deployments
        /\ df_sonarcloud = loaded.sonarcloud

\* C10: a latest record with technical_debt_minutes = m is summarised in
\* days (m/60/24 to one decimal, 'dias') exactly when m/60 >= 24, and in
\* hours (m/60 to one decimal, 'horas') otherwise; 1500 gives "1.0 dias"
\* and 300 gives "5.0 horas".
NearestTenth(t, num, den) ==
    /\ 2 * den * t - den <= 20 * num
    /\ 20 * num <= 2 * den * t + den
C10_DebtFormat ==
    ~IsNull(debt_str) =>
        /\ Len(Val(debt_str)) = Len(df_latest.rows)
        /\ \A i \in Indices(df_latest.rows) :
              LET m == df_latest.rows[i].technical_debt_minutes
                  line == Val(debt_str)[i]
              IN  /\ line.project_key = df_latest.rows[i].project_key
                  /\ ~IsNull(m) =>
                        /\ line.debt.text = "number"
                        /\ Val(m) >= 1440 =>
                              /\ line.debt.unit = " dias"
                              /\ NearestTenth(line.debt.tenths, Val(m), 1440)
                        /\ Val(m) < 1440 =>
                              /\ line.debt.unit = " horas"
                              /\ NearestTenth(line.debt.tenths, Val(m), 60)
                        /\ Val(m) = 1500 => line.debt.tenths = 10
                        /\ Val(m) = 300 => line.debt.tenths = 50
C10_Witness ==
    /\ ~IsNull(debt_str)
    /\ \E i \in Indices(df_latest.rows) :
          /\ df_latest.rows[i].technical_debt_minutes = Some(1440)
          /\ Val(debt_str)[i].debt = [text |-> "number", tenths |-> 10, unit |-> " dias"]

====
